---- MODULE Spec2Model ----
(***************************************************************************)
(* Model of surfactant_conductance_fit.py: the APN monomer and             *)
(* conductivity model functions, the curve_fit call that fits the five     *)
(* parameters (cmc, r, a, b, c), the standard deviations taken from the    *)
(* covariance matrix, the printed report and the degree of ionization.     *)
(*                                                                         *)
(* Reals are IEEE doubles in the program.  Here a double is a record       *)
(* [k, v]: k = "num" with v the value in thousandths, k = "inf" with       *)
(* v = 1 or -1, or k = "nan".  The operators F... follow numpy's float64   *)
(* arithmetic (x/0 is +-inf, 0/0 and sqrt of a negative are nan, every     *)
(* comparison with nan is false); numpy warns in those cases and goes on.  *)
(***************************************************************************)
EXTENDS Integers, Sequences, FiniteSets, TLC

S == 10 * 10 * 10

Num(v) == [k |-> "num", v |-> v]
NaN == [k |-> "nan", v |-> 0]
Inf(s) == [k |-> "inf", v |-> s]

Float == [k : {"num", "nan", "inf"}, v : Int]

IsNum(a) == a.k = "num"
IsNaN(a) == a.k = "nan"
IsInf(a) == a.k = "inf"

Abs(i) == IF i < 0 THEN -i ELSE i
Sgn(i) == IF i < 0 THEN -1 ELSE IF i > 0 THEN 1 ELSE 0
Max2(i, j) == IF i >= j THEN i ELSE j
Min2(i, j) == IF i <= j THEN i ELSE j

\* sign of a double that is not nan: -1, 0 or 1
FSign(a) == IF IsInf(a) THEN a.v ELSE Sgn(a.v)

\* i * j / S on non-negative integers, the larger factor split so that the
\* intermediate products stay in range
MulAbs[i \in Nat, j \in Nat] ==
    (Max2(i, j) \div S) * Min2(i, j)
        + ((Max2(i, j) % S) * Min2(i, j) + S \div 2) \div S

\* i * S / j on non-negative integers, j > 0, by long division
LongDiv[n \in Nat, m \in Nat] == (n \div m) * S + ((n % m) * S + m \div 2) \div m

\* a large divisor is shortened first so that the remainder times S stays in
\* range
DivAbs[i \in Nat, j \in Nat] ==
    IF j > 2000 * S THEN LongDiv[i \div S, j \div S] ELSE LongDiv[i, j]

\* a product or quotient of nonzero doubles of this range is not zero: its
\* magnitude m is kept one unit away from zero (the sign factor of FMul and
\* FDiv is zero when an operand is)
NonZero[m \in Nat] == IF m = 0 THEN 1 ELSE m

FNeg[a \in Float] == IF IsNaN(a) THEN NaN ELSE [a EXCEPT !.v = -a.v]

FAdd[a \in Float, b \in Float] ==
    IF IsNaN(a) \/ IsNaN(b) THEN NaN
    ELSE IF IsInf(a) /\ IsInf(b) THEN (IF a.v = b.v THEN a ELSE NaN)
    ELSE IF IsInf(a) THEN a
    ELSE IF IsInf(b) THEN b
    ELSE Num(a.v + b.v)

FSub[a \in Float, b \in Float] == FAdd[a, FNeg[b]]

FMul[a \in Float, b \in Float] ==
    IF IsNaN(a) \/ IsNaN(b) THEN NaN
    ELSE IF IsInf(a) \/ IsInf(b)
         THEN (IF FSign(a) = 0 \/ FSign(b) = 0 THEN NaN
               ELSE Inf(FSign(a) * FSign(b)))
    ELSE Num(Sgn(a.v) * Sgn(b.v) * NonZero[MulAbs[Abs(a.v), Abs(b.v)]])

FDiv[a \in Float, b \in Float] ==
    IF IsNaN(a) \/ IsNaN(b) THEN NaN
    ELSE IF IsInf(a) THEN (IF IsInf(b) THEN NaN
                           ELSE Inf(a.v * (IF b.v < 0 THEN -1 ELSE 1)))
    ELSE IF IsInf(b) THEN Num(0)
    ELSE IF b.v = 0 THEN (IF a.v = 0 THEN NaN ELSE Inf(Sgn(a.v)))
    ELSE Num(Sgn(a.v) * Sgn(b.v) * NonZero[DivAbs[Abs(a.v), Abs(b.v)]])

\* a < b: false as soon as one side is nan
FLess[a \in Float, b \in Float] ==
    IF IsNaN(a) \/ IsNaN(b) THEN FALSE
    ELSE IF IsInf(a) THEN a.v = -1 /\ ~(IsInf(b) /\ b.v = -1)
    ELSE IF IsInf(b) THEN b.v = 1
    ELSE a.v < b.v

\* integer square root, floor(sqrt(n)), searched between lo and hi
ISqrtIter[n \in Nat, lo \in Nat, hi \in Nat] ==
    IF lo >= hi THEN lo
    ELSE IF (lo + hi + 1) \div 2 <= n \div ((lo + hi + 1) \div 2)
         THEN ISqrtIter[n, (lo + hi + 1) \div 2, hi]
         ELSE ISqrtIter[n, lo, (lo + hi + 1) \div 2 - 1]

ISqrt[n \in Nat] == ISqrtIter[n, 0, Min2(n, 46340)]

\* sqrt(v/S)*S = sqrt(v*S) = 100*sqrt(v/10)
SqrtAbs[v \in Nat] ==
    IF v < 2000 * S THEN ISqrt[v * S] ELSE 100 * ISqrt[v \div 10]

\* np.sqrt and x**0.5 on a float64: nan for a negative argument
FSqrt[a \in Float] ==
    IF IsNaN(a) THEN NaN
    ELSE IF IsInf(a) THEN (IF a.v = 1 THEN a ELSE NaN)
    ELSE IF a.v < 0 THEN NaN
    ELSE Num(SqrtAbs[a.v])

\* h * h / S
Square[h \in Nat] == (h * h + S \div 2) \div S

\* exp(-x/S)*S for x >= 0: Taylor polynomial below 1/8, squaring above
ExpNeg[x \in Nat] ==
    IF x > 20 * S THEN 0
    ELSE IF x <= S \div 8
         THEN S - x + (x * x) \div (2 * S) - (x * x * x) \div (6 * S * S)
         ELSE Square[ExpNeg[(x + 1) \div 2]]

\* np.exp; the model functions only pass arguments <= 0, -inf or nan
FExp[a \in Float] ==
    IF IsNaN(a) THEN NaN
    ELSE IF IsInf(a) THEN (IF a.v = 1 THEN a ELSE Num(0))
    ELSE IF a.v <= 0 THEN Num(ExpNeg[-a.v])
    ELSE IF ExpNeg[a.v] = 0 THEN Inf(1)
    ELSE Num(DivAbs[S, ExpNeg[a.v]])

\* the polynomial of Abramowitz-Stegun 7.1.26 in t = 1/(1 + 0.3275911 x),
\* by Horner's rule, the coefficients in thousandths
ErfPoly[t \in Nat] ==
    LET p4 == 1453 - MulAbs[1061, t]
        p3 == 1421 - MulAbs[p4, t]
        p2 == MulAbs[p3, t] - 284
        p1 == 255 + Sgn(p2) * MulAbs[Abs(p2), t]
    IN  MulAbs[p1, t]

\* erf(x/S)*S for x >= 0
ErfAbs[x \in Nat] ==
    IF x >= 4 * S THEN S
    ELSE S - MulAbs[ErfPoly[DivAbs[S, S + MulAbs[328, x]]], ExpNeg[MulAbs[x, x]]]

\* scipy.special.erf: odd, erf(+-inf) = +-1
FErf[a \in Float] ==
    IF IsNaN(a) THEN NaN
    ELSE IF IsInf(a) THEN Num(a.v * S)
    ELSE Num(Sgn(a.v) * ErfAbs[Abs(a.v)])

\* math.pi
pi == Num(3142)

\* APNS1 with the reduced concentration s0 where the formula has s0 - 1
APNS1Unshifted(cS0, cmc, r) ==
    LET s0 == FDiv[cS0, cmc]
        one == Num(S)
        two == Num(2 * S)
        c2pi == FSqrt[FDiv[two, pi]]
        rr2 == FMul[FMul[two, r], r]
        A == FDiv[two,
                  FAdd[FAdd[one,
                            FMul[FMul[c2pi, r], FExp[FDiv[Num(-S), rr2]]]],
                       FErf[FDiv[FDiv[one, FSqrt[two]], r]]]]
        g == FMul[FMul[c2pi, r], FExp[FDiv[FNeg[FMul[s0, s0]], rr2]]]
        e == FMul[s0, FSub[FErf[FDiv[s0, FMul[FSqrt[two], r]]], one]]
    IN  FMul[cmc, FSub[one, FMul[FDiv[A, two], FAdd[g, e]]]]

\* APNS1(cS0,cmc,r): monomer concentration [S1] from the total concentration.
\* curve_fit and the plot pass cmc and r as elements of a numpy array, so a
\* division by zero yields inf or nan (and a warning), not ZeroDivisionError.
APNS1(cS0, cmc, r) ==
    LET s0 == FDiv[cS0, cmc]
        one == Num(S)
        two == Num(2 * S)
        c2pi == FSqrt[FDiv[two, pi]]
        rr2 == FMul[FMul[two, r], r]
        A == FDiv[two,
                  FAdd[FAdd[one,
                            FMul[FMul[c2pi, r], FExp[FDiv[Num(-S), rr2]]]],
                       FErf[FDiv[FDiv[one, FSqrt[two]], r]]]]
        dd == FSub[s0, one]
        g == FMul[FMul[c2pi, r], FExp[FDiv[FNeg[FMul[dd, dd]], rr2]]]
        e == FMul[dd, FSub[FErf[FDiv[dd, FMul[FSqrt[two], r]]], one]]
    IN  FMul[cmc, FSub[one, FMul[FDiv[A, two], FAdd[g, e]]]]

\* APNConductivity(cS0,cmc,r,a,b,c): conductivity from the total concentration
APNConductivity(cS0, cmc, r, a, b, c) ==
    LET cS1 == APNS1(cS0, cmc, r)
        cSm == FSub[cS0, cS1]
    IN  FAdd[FAdd[FMul[a, cS1], FMul[b, cSm]], c]

\* ------------------------------------------------------------------------
\* Data and configuration of the fit

\* number of fitted parameters (cmc, r, a, b, c)
NPar == Len(<<"cmc", "r", "a", "b", "c">>)

\* Initial parameter values (cmc,r,a,b,c)
p0 == <<Num(8000), Num(100), Num(70000), Num(30000), Num(10000)>>

\* The two columns read from the spreadsheet, [S]0 in mM and kappa in uS/cm.
\* Sample set 1 is taken from the SLS series kept in the comments of the
\* script; sample set 2 is a series with a smaller monomer slope.  Both are
\* finite and longer than the parameter vector, as curve_fit requires.
Samples ==
    << [x |-> <<0, 1920, 4950, 8120, 12120, 20240>>,
        y |-> <<3500, 150200, 376000, 582000, 715000, 937000>>],
       [x |-> <<0, 2000, 5000, 8120, 12000, 20000>>,
        y |-> <<10000, 90000, 210000, 333000, 450000, 690000>>] >>

\* the parameter vectors the optimizer may propose as x + p
Candidates ==
    { <<Num(8100), Num(100), Num(75000), Num(27000), Num(4000)>>,
      <<Num(8000), Num(100), Num(40000), Num(30000), Num(10000)>>,
      <<Num(8100), Num(0), Num(75000), Num(27000), Num(4000)>>,
      <<Num(8120), Num(0), Num(70000), Num(30000), Num(10000)>>,
      <<Num(8000), Num(-100), Num(70000), Num(30000), Num(10000)>>,
      <<Num(8000), Num(-1000), Num(70000), Num(30000), Num(10000)>> }

\* func(xdata, *params): the parameter vector unpacked onto the positional
\* parameters (cmc, r, a, b, c) of APNConductivity
Bind(p) == [cmc |-> p[1], r |-> p[2], a |-> p[3], b |-> p[4], c |-> p[5]]

\* APNConductivity applied elementwise to the concentrations xs
ModelAt(xs, p) ==
    LET q == Bind(p)
    IN  [i \in 1..Len(xs) |-> APNConductivity(Num(xs[i]), q.cmc, q.r, q.a, q.b, q.c)]

\* func(xdata, *params) - ydata
Residuals(dd, p) ==
    [i \in 1..Len(Samples[dd].x) |->
        FSub[ModelAt(Samples[dd].x, p)[i], Num(Samples[dd].y[i])]]

\* sum of the first n components
FSum[s \in Seq(Float), n \in Nat] ==
    IF n = 0 THEN Num(0) ELSE FAdd[FSum[s, n - 1], s[n]]

\* largest magnitude among the first n components
MaxAbs[s \in Seq(Float), n \in Nat] ==
    IF n = 0 THEN 0 ELSE Max2(MaxAbs[s, n - 1], Abs(s[n].v))

\* the components of s over m, squared
Scaled[s \in Seq(Float), m \in Float] ==
    [i \in 1..Len(s) |-> FMul[FDiv[s[i], m], FDiv[s[i], m]]]

\* Euclidean norm of a residual vector, scaled by its largest component
Enorm[s \in Seq(Float)] ==
    IF \E i \in 1..Len(s) : IsNaN(s[i]) THEN NaN
    ELSE IF \E i \in 1..Len(s) : IsInf(s[i]) THEN Inf(1)
    ELSE IF MaxAbs[s, Len(s)] = 0 THEN Num(0)
    ELSE FMul[Num(MaxAbs[s, Len(s)]),
              FSqrt[FSum[Scaled[s, Num(MaxAbs[s, Len(s)])], Len(s)]]]

\* norm of func(xdata, *p) - ydata
Fnorm(dd, p) == Enorm[Residuals(dd, p)]

\* the parameter vectors the optimizer can visit
Visited == Candidates \cup {p0}

\* ------------------------------------------------------------------------
\* Standard deviations, report and degree of ionization

\* np.diagonal(pcov)
Diagonal(m) == [i \in 1..Len(m) |-> m[i][i]]

\* psd with every entry that is not a number replaced by zero
PsdClamped(m) ==
    [i \in 1..Len(m) |->
        IF IsNum(FSqrt[Diagonal(m)[i]]) THEN FSqrt[Diagonal(m)[i]] ELSE Num(0)]

\* psd that is nan throughout as soon as one variance is negative
PsdAllOrNothing(m) ==
    IF \E j \in 1..Len(m) : IsNaN(FSqrt[Diagonal(m)[j]])
    THEN [i \in 1..Len(m) |-> NaN]
    ELSE [i \in 1..Len(m) |-> FSqrt[Diagonal(m)[i]]]

\* psd = np.sqrt(np.diagonal(pcov)), elementwise
PsdOf(m) == [i \in 1..Len(m) |-> FSqrt[Diagonal(m)[i]]]

\* the values printed by the report line: cmc and r with their deviations
ReportOf(p, sd) == [cmc |-> p[1], cmc_sd |-> sd[1], r |-> p[2], r_sd |-> sd[2]]

\* aggregation number and molar conductivity of the counter-ion
N_agg == 50
lambdaC == Num(50100)

\* N_agg**0.667
NaggPow == Num(13590)

\* the slopes read one place too early in the parameter vector
AlphaArgsShifted(p) == [a |-> p[2], b |-> p[3]]

\* the slopes the degree of ionization is computed from: a and b
AlphaArgs(p) == [a |-> p[3], b |-> p[4]]

\* alpha = -1*(lambdaC - (4*b*N_agg**0.667*(a - lambdaC) + lambdaC**2)**0.5)
\*         / (2*N_agg**0.667*(a - lambdaC))
Radicand(a, b) ==
    FAdd[FMul[FMul[FMul[Num(4 * S), b], NaggPow], FSub[a, lambdaC]],
         FMul[lambdaC, lambdaC]]

Degree(a, b) ==
    FDiv[FMul[Num(-S), FSub[lambdaC, FSqrt[Radicand(a, b)]]],
         FMul[FMul[Num(2 * S), NaggPow], FSub[a, lambdaC]]]

\* alpha as the script computes it from popt
AlphaOf(p) == Degree(AlphaArgs(p).a, AlphaArgs(p).b)

\* np.round(v, n) for a value in thousandths, u = 10^(3-n) thousandths
Round(v, u) ==
    IF ~IsNum(v) THEN v
    ELSE Num(Sgn(v.v) * ((Abs(v.v) + u \div 2) \div u) * u)

\* the numbers formatted into the legend of the plot
LabelOf(p, sd, al) ==
    [cmc |-> Round(p[1], 10), cmc_sd |-> Round(sd[1], 10), alpha |-> Round(al, 1)]

\* np.linspace(lo, hi, n)
NCurve == 50
Linspace(lo, hi, n) == [i \in 1..n |-> lo + ((hi - lo) * (i - 1)) \div (n - 1)]

\* curvex = np.linspace(xdata[0], xdata.iloc[-1], 50) and
\* curvey = APNConductivity(curvex, *popt)
Curve(dd, p) ==
    LET xs == Samples[dd].x
    IN  ModelAt(Linspace(xs[1], xs[Len(xs)], NCurve), p)

\* What the model function yields on the sample set dd for each parameter
\* vector the optimizer can visit: the norm of the residuals and the fitted
\* curve.  The table is fixed by the data read from the spreadsheet.
Objective(dd) == [p \in Visited |-> [fnorm |-> Fnorm(dd, p), curve |-> Curve(dd, p)]]

\* ------------------------------------------------------------------------
\* State

VARIABLES
    pc,        \* position in the script
    d,         \* which sample set the spreadsheet holds
    fvals,     \* the model function on that sample set, see Objective
    maxfev,    \* maximum number of function evaluations given to curve_fit
               \* (2000 in the script; small budgets are explored here)
    phase,     \* position inside curve_fit's Levenberg-Marquardt iteration
    x,         \* current iterate of the optimizer
    fnorm,     \* norm of the residuals at x
    trial,     \* last parameter vector the model function was evaluated at
    fnorm1,    \* norm of the residuals at trial
    nfev,      \* number of evaluations of the model function so far
    damping,   \* number of net reductions of the step bound (damping level)
    info,      \* termination code of the iteration, 0 while it runs
    popt,      \* optimized parameter values
    pcov,      \* covariance matrix of popt
    psd,       \* parameter standard deviations
    out,       \* values written by the report line
    alpha,     \* degree of ionization
    curvey,    \* fitted curve drawn by the plot
    label,     \* numbers in the legend of the plot
    exc,       \* exception that ended the script, "none" if none
    warned,    \* warnings issued so far
    call       \* a single call of one of the functions: name, arguments, result

vars == <<pc, d, fvals, maxfev, phase, x, fnorm, trial, fnorm1, nfev, damping, info,
          popt, pcov, psd, out, alpha, curvey, label, exc, warned, call>>

fitvars == <<x, fnorm, trial, fnorm1, nfev, damping, info>>
resvars == <<popt, pcov, psd, out, alpha, curvey, label>>

\* largest maxfev explored
MaxFev == 9

None == <<>>
NoCall == [fn |-> "none", args |-> <<>>, res |-> <<>>]

\* covariance matrices curve_fit may return when the Jacobian has full rank:
\* variances on the diagonal, the last one with a negative diagonal entry as
\* a numerical breakdown of the inversion yields
Cov(v, o) == [i \in 1..NPar |-> [j \in 1..NPar |-> IF i = j THEN Num(v[i]) ELSE Num(o)]]

CovChoices ==
    { Cov(<<4, 1, 9000, 2500, 16000>>, -1),
      Cov(<<4, -1, 9000, 2500, 16000>>, 2) }

\* pcov filled with inf: the covariance could not be estimated
InfCov == [i \in 1..NPar |-> [j \in 1..NPar |-> Inf(1)]]

\* ------------------------------------------------------------------------
\* The script

Init ==
    /\ pc = "fit"
    /\ d \in 1..Len(Samples)
    /\ fvals = Objective(d)
    /\ maxfev \in 1..MaxFev
    /\ phase = "start"
    /\ x = p0
    /\ fnorm = Num(0)
    /\ trial = None
    /\ fnorm1 = Num(0)
    /\ nfev = 0
    /\ damping = 0
    /\ info = 0
    /\ popt = None
    /\ pcov = None
    /\ psd = None
    /\ out = None
    /\ alpha = None
    /\ curvey = None
    /\ label = None
    /\ exc = "none"
    /\ warned = {}
    /\ call = NoCall

\* curve_fit, start of the iteration: the model function is evaluated at p0
FitStart ==
    /\ pc = "fit" /\ phase = "start"
    /\ x' = p0
    /\ trial' = p0
    /\ fnorm' = fvals[p0].fnorm
    /\ fnorm1' = fvals[p0].fnorm
    /\ nfev' = 1
    /\ phase' = "jac"
    /\ UNCHANGED <<pc, d, fvals, maxfev, damping, info, resvars, exc, warned, call>>

\* outer loop: forward-difference Jacobian at x, one evaluation per parameter,
\* then the test of the gradient; zero tells that the gradient vanishes
FitJacobian ==
    /\ pc = "fit" /\ phase = "jac"
    /\ nfev' = nfev + NPar
    /\ \E zero \in BOOLEAN :
        /\ info' = IF zero THEN 4 ELSE 0
        /\ phase' = IF zero THEN "stop" ELSE "trial"
    /\ UNCHANGED <<pc, d, fvals, maxfev, x, fnorm, trial, fnorm1, damping, resvars,
                   exc, warned, call>>

\* scaled actual reduction of the residual norm from f0 to f1
Actred[f0 \in Float, f1 \in Float] ==
    IF FLess[FMul[Num(S \div 10), f1], f0]
    THEN FSub[Num(S), FMul[FDiv[f1, f0], FDiv[f1, f0]]]
    ELSE Num(-S)

\* the classes of ratio = actred/prered: below 0.0001, up to 0.25, up to 0.75,
\* above; the predicted reduction is not negative
Ratios(actred) ==
    IF FLess[Num(0), actred] THEN {"poor", "fair", "ok", "good"} ELSE {"poor"}

\* every trial step taken as the new iterate
AcceptedAlways(q) == TRUE

\* a trial step is accepted when ratio >= 0.0001
Accepted(q) == q # "poor"

\* the step bound after a trial step: reduced when ratio <= 0.25, enlarged
\* when ratio >= 0.75
Damp(q, n) ==
    IF q \in {"poor", "fair"} THEN n + 1
    ELSE IF q = "good" /\ n > 0 THEN n - 1
    ELSE n

\* the budget compared with twice the maximum
VerdictLate(conv, strict, n, m) ==
    IF conv # 0 THEN conv
    ELSE IF strict # 0 THEN strict
    ELSE IF n >= 2 * m THEN 5
    ELSE 0

\* termination tests after a trial step: conv is the outcome of the tests of
\* ftol and xtol (1, 2, 3 or 0), strict that of the tests against the machine
\* precision (6, 7, 8 or 0), n the number of evaluations, m their maximum
Verdict(conv, strict, n, m) ==
    IF conv # 0 THEN conv
    ELSE IF strict # 0 THEN strict
    ELSE IF n >= m THEN 5
    ELSE 0

\* the outcomes of the tolerance tests a trial step allows: the tests of the
\* reduction (1, 3, 6) need a computed reduction, those of the step bound not
ConvOutcomes(actred) == IF actred = Num(-S) THEN {0, 2} ELSE {0, 1, 2, 3}
StrictOutcomes(actred) == IF actred = Num(-S) THEN {0, 7, 8} ELSE {0, 6, 7, 8}

\* inner loop: the model function is evaluated at x + p; the step is accepted
\* or rejected, the step bound updated, the termination tests made
FitTrial ==
    /\ pc = "fit" /\ phase = "trial"
    /\ \E cand \in Candidates :
        \E actred \in {Actred[fnorm, fvals[cand].fnorm]} :
            \E q \in Ratios(actred), conv \in ConvOutcomes(actred),
               strict \in StrictOutcomes(actred) :
                /\ trial' = cand
                /\ fnorm1' = fvals[cand].fnorm
                /\ nfev' = nfev + 1
                /\ damping' = Damp(q, damping)
                /\ x' = IF Accepted(q) THEN cand ELSE x
                /\ fnorm' = IF Accepted(q) THEN fvals[cand].fnorm ELSE fnorm
                /\ info' = Verdict(conv, strict, nfev + 1, maxfev)
                /\ phase' = IF info' # 0 THEN "stop"
                            ELSE IF Accepted(q) THEN "jac" ELSE "trial"
    /\ UNCHANGED <<pc, d, fvals, maxfev, resvars, exc, warned, call>>

\* the termination codes with which curve_fit returns a result
Success == {1, 2, 3, 4}

\* a failed fit that hands back the last iterate like a result
FitRaiseSilent ==
    /\ pc = "fit" /\ phase = "stop"
    /\ info \notin {1, 2, 3, 4}
    /\ popt' = x
    /\ pcov' = [i \in 1..NPar |-> [j \in 1..NPar |-> Inf(1)]]
    /\ pc' = "psd"
    /\ UNCHANGED <<d, fvals, maxfev, phase, fitvars, psd, out, alpha, curvey,
                   label, exc, warned, call>>

\* curve_fit raises RuntimeError("Optimal parameters not found"); nothing in
\* the script catches it and the interpreter exits
FitRaise ==
    /\ pc = "fit" /\ phase = "stop"
    /\ info \notin Success
    /\ exc' = "RuntimeError"
    /\ pc' = "crashed"
    /\ UNCHANGED <<d, fvals, maxfev, phase, fitvars, resvars, warned, call>>

\* curve_fit returns popt and pcov; pcov is filled with inf, with a warning,
\* when the Jacobian at popt is singular
FitReturn ==
    /\ pc = "fit" /\ phase = "stop"
    /\ info \in Success
    /\ popt' = x
    /\ \E singular \in BOOLEAN :
        IF singular
        THEN /\ pcov' = InfCov
             /\ warned' = warned \cup {"OptimizeWarning"}
        ELSE /\ pcov' \in CovChoices
             /\ warned' = warned
    /\ pc' = "psd"
    /\ UNCHANGED <<d, fvals, maxfev, phase, fitvars, psd, out, alpha, curvey, label,
                   exc, call>>

\* psd = np.sqrt(np.diagonal(pcov)); numpy warns of an invalid value
StdDev ==
    /\ pc = "psd"
    /\ psd' = PsdOf(pcov)
    /\ warned' = IF \E i \in 1..NPar : FLess[Diagonal(pcov)[i], Num(0)]
                 THEN warned \cup {"RuntimeWarning"} ELSE warned
    /\ pc' = "print"
    /\ UNCHANGED <<d, fvals, maxfev, phase, fitvars, popt, pcov, out, alpha, curvey,
                   label, exc, call>>

\* print(popt), print(psd) and the report line
Report ==
    /\ pc = "print"
    /\ out' = ReportOf(popt, psd)
    /\ pc' = "alpha"
    /\ UNCHANGED <<d, fvals, maxfev, phase, fitvars, popt, pcov, psd, alpha, curvey,
                   label, exc, warned, call>>

\* Calculate degree of ionization alpha
Ionization ==
    /\ pc = "alpha"
    /\ alpha' = AlphaOf(popt)
    /\ warned' = IF FLess[Radicand(AlphaArgs(popt).a, AlphaArgs(popt).b), Num(0)]
                 THEN warned \cup {"RuntimeWarning"} ELSE warned
    /\ pc' = "plot"
    /\ UNCHANGED <<d, fvals, maxfev, phase, fitvars, popt, pcov, psd, out, curvey,
                   label, exc, call>>

\* the fitted curve over the range of the data and the legend of the plot
Plot ==
    /\ pc = "plot"
    /\ curvey' = fvals[popt].curve
    /\ label' = LabelOf(popt, psd, alpha)
    /\ pc' = "done"
    /\ UNCHANGED <<d, fvals, maxfev, phase, fitvars, popt, pcov, psd, out, alpha,
                   exc, warned, call>>

Next ==
    \/ FitStart
    \/ FitJacobian
    \/ FitTrial
    \/ FitRaise
    \/ FitReturn
    \/ StdDev
    \/ Report
    \/ Ionization
    \/ Plot

Spec == Init /\ [][Next]_vars

\* the script runs on as long as a statement is left
FairSpec == Spec /\ WF_vars(Next)

\* ------------------------------------------------------------------------
\* The functions called on their own, on arguments of a grid

ArgConc == {0, 500, 1000, 2000, 8000, 8200, 12000, 20000}
ArgCmc == {1000, 8000, 8200}
ArgR == {-1000, -100, 0, 50, 100, 200, 500, 1000, 1500, 2000}
ArgSlope == {5000, 30000, 40000, 50100, 70000}
ArgVar == {-4000, 0, 9000}

InitFn ==
    /\ pc = "idle"
    /\ d = 1
    /\ fvals = None
    /\ maxfev = 1
    /\ phase = "start"
    /\ x = p0
    /\ fnorm = Num(0)
    /\ trial = None
    /\ fnorm1 = Num(0)
    /\ nfev = 0
    /\ damping = 0
    /\ info = 0
    /\ popt = None
    /\ pcov = None
    /\ psd = None
    /\ out = None
    /\ alpha = None
    /\ curvey = None
    /\ label = None
    /\ exc = "none"
    /\ warned = {}
    /\ call = NoCall

\* no call made yet
Idle ==
    /\ pc = "idle" /\ call = NoCall
    /\ UNCHANGED <<pc, d, fvals, maxfev, phase, fitvars, resvars, exc, warned>>

CallAPNS1 ==
    /\ Idle
    /\ \E cS0 \in ArgConc, cmc \in ArgCmc, r \in ArgR :
        call' = [fn |-> "APNS1",
                 args |-> <<Num(cS0), Num(cmc), Num(r)>>,
                 res |-> <<APNS1(Num(cS0), Num(cmc), Num(r))>>]

CallAPNConductivity ==
    /\ Idle
    /\ \E cS0 \in ArgConc, cmc \in ArgCmc, r \in ArgR :
        call' = [fn |-> "APNConductivity",
                 args |-> <<Num(cS0), Num(cmc), Num(r), p0[3], p0[4], p0[5]>>,
                 res |-> <<APNConductivity(Num(cS0), Num(cmc), Num(r),
                                           p0[3], p0[4], p0[5])>>]

CallPsd ==
    /\ Idle
    /\ \E v \in [1..NPar -> ArgVar] :
        call' = [fn |-> "psd",
                 args |-> <<Cov(v, -1)>>,
                 res |-> PsdOf(Cov(v, -1))]

CallAlpha ==
    /\ Idle
    /\ \E a \in ArgSlope, b \in ArgSlope \cup {-3000} :
        call' = [fn |-> "alpha",
                 args |-> <<Num(a), Num(b)>>,
                 res |-> <<AlphaOf(<<p0[1], p0[2], Num(a), Num(b), p0[5]>>)>>]

NextFn ==
    \/ CallAPNS1
    \/ CallAPNConductivity
    \/ CallPsd
    \/ CallAlpha

SpecFn == InitFn /\ [][NextFn]_vars

\* ------------------------------------------------------------------------
\* Properties

Terminal == {"done", "crashed"}

\* C1: when the iteration stops without convergence (the budget of
\* evaluations exhausted, maxfev = 1 included) the fit ends with RuntimeError:
\* no popt is assigned and neither the standard deviations, the report, alpha
\* nor the plot are computed from the last iterate.
C1_FailureIsNotSuccess ==
    (phase = "stop" /\ info \notin Success) =>
        /\ pc \in {"fit", "crashed"}
        /\ pc = "crashed" => exc = "RuntimeError"
        /\ popt = None /\ pcov = None /\ psd = None
        /\ out = None /\ alpha = None /\ label = None

C1_Witness ==
    pc = "crashed" /\ info = 5 /\ maxfev = 1 /\ nfev >= maxfev /\ x # p0

\* C2: no error ends the process: control always returns to a caller.
C2_NoErrorEndsTheProcess == pc # "crashed"

\* C3: when the Jacobian is singular at the optimum the fit returns the best
\* parameter vector found with every standard deviation marked inf; a fit
\* whose covariance was estimated never carries that mark, and a fit that did
\* not converge returns no parameters at all.
C3_CovarianceUnavailable ==
    /\ "OptimizeWarning" \in warned =>
        /\ exc = "none" /\ pc # "crashed"
        /\ popt = x /\ popt \in Visited
        /\ psd # None => \A i \in 1..NPar : psd[i] = Inf(1)
        /\ out # None => out.cmc = popt[1] /\ IsInf(out.cmc_sd) /\ IsInf(out.r_sd)
        /\ label # None => IsInf(label.cmc_sd)
    /\ ("OptimizeWarning" \notin warned /\ psd # None) =>
        \A i \in 1..NPar : ~IsInf(psd[i])
    /\ pc = "crashed" => (popt = None /\ psd = None /\ "OptimizeWarning" \notin warned)

C3_Witness ==
    pc = "done" /\ "OptimizeWarning" \in warned /\ IsInf(label.cmc_sd) /\ popt # p0

\* C4: a trial step at which the residual norm is nan or inf is rejected:
\* the iterate and its norm stay, the damping level rises, no exception is
\* raised and the inner loop goes on unless a tolerance or the budget of
\* evaluations stops it.
C4_NonFiniteTrialRejected ==
    [][(pc = "fit" /\ phase = "trial" /\ nfev' = nfev + 1 /\ ~IsNum(fnorm1')) =>
        /\ x' = x /\ fnorm' = fnorm
        /\ damping' = damping + 1
        /\ pc' = "fit" /\ exc' = "none"
        /\ info' \in {0, 2, 5, 7, 8}
        /\ info' = 0 => phase' = "trial"]_vars

C4_Witness ==
    /\ pc = "fit" /\ phase = "trial" /\ info = 0
    /\ trial # None /\ trial # x /\ ~IsNum(fnorm1) /\ IsNum(fnorm)
    /\ damping > 0

\* C5: no call of the monomer model or of the conductivity model with
\* r <= 0 returns a number.
C5_NonPositiveWidthRejected ==
    (call.fn \in {"APNS1", "APNConductivity"} /\ call.args[3].v <= 0) =>
        ~IsNum(call.res[1])

\* C6: alpha is never nan, in the script and in the legend of the plot.
C6_AlphaIsANumber ==
    /\ alpha # None => IsNum(alpha)
    /\ label # None => IsNum(label.alpha)

\* C7: the standard deviations are the square roots of the diagonal of the
\* covariance matrix, entry by entry: nan exactly where the variance is
\* negative, the root of the variance everywhere else, five entries, no
\* exception.
C7_ComponentwiseRoot ==
    call.fn = "psd" =>
        /\ exc = "none"
        /\ Len(call.res) = NPar
        /\ \A i \in 1..NPar :
            LET v == call.args[1][i][i]
                r == call.res[i]
            IN  /\ v.v < 0 => IsNaN(r)
                /\ v.v >= 0 => /\ IsNum(r) /\ r.v >= 0
                               /\ r.v * r.v <= v.v * S
                               /\ v.v * S < (r.v + 1) * (r.v + 1)

C7_Witness ==
    /\ call.fn = "psd"
    /\ \E i, j \in 1..NPar :
        /\ call.args[1][i][i].v < 0 /\ IsNaN(call.res[i])
        /\ call.args[1][j][j].v > 0 /\ IsNum(call.res[j]) /\ call.res[j].v > 0

\* C8: the parameter vector has five components in the order (cmc, r, a, b,
\* c) throughout: the optimizer's result and the standard deviations have five
\* entries, the report prints as cmc and r what the model function takes as
\* cmc and r, with the deviations of the same places, and alpha is computed
\* from what the model function takes as a and b.
C8_ParameterOrder ==
    /\ Len(x) = NPar
    /\ trial # None => Len(trial) = NPar
    /\ popt # None => Len(popt) = NPar /\ popt = x
    /\ psd # None => Len(psd) = NPar
    /\ out # None =>
        /\ out.cmc = Bind(popt).cmc /\ out.r = Bind(popt).r
        /\ out.cmc_sd = FSqrt[pcov[1][1]] /\ out.r_sd = FSqrt[pcov[2][2]]
    /\ alpha # None => alpha = Degree(Bind(popt).a, Bind(popt).b)
    /\ curvey # None => curvey = Curve(d, <<Bind(popt).cmc, Bind(popt).r,
                                           Bind(popt).a, Bind(popt).b, Bind(popt).c>>)

C8_Witness ==
    pc = "done" /\ popt # p0 /\ IsNum(alpha) /\ IsNum(out.cmc_sd) /\ IsNum(out.r_sd)

\* C9 as stated: the fit terminates and the number of evaluations never
\* exceeds maxfev.
C9_NeverExceedsMaxfev == [](nfev <= maxfev) /\ <>(pc # "fit")

\* C9, amended: the fit terminates, whatever steps are rejected, and the
\* number of evaluations never exceeds maxfev by more than the number of
\* parameters plus one.
C9_TerminatesNearBudget == [](nfev <= maxfev + NPar + 1) /\ <>(pc # "fit")

C9_Witness ==
    pc = "crashed" /\ info = 5 /\ nfev > maxfev /\ damping > 1

\* a call of APNS1 at the transition midpoint, cS0 = cmc > 0, with r > 0
Midpoint ==
    /\ call.fn = "APNS1"
    /\ call.args[1] = call.args[2]
    /\ call.args[2].v > 0 /\ call.args[3].v > 0

\* C10 as stated: at cS0 = cmc the monomer model returns cmc/2, here within a
\* twentieth of cmc.
C10_MidpointIsHalf ==
    Midpoint =>
        /\ IsNum(call.res[1])
        /\ 20 * Abs(2 * call.res[1].v - call.args[2].v) <= 2 * call.args[2].v

\* C10, amended: at cS0 = cmc the monomer model returns a value strictly
\* between 0 and cmc, more than cmc/2 as long as r <= 1 and more than 0.9 cmc
\* as long as r <= 0.2.
C10_MidpointBelowCmc ==
    Midpoint =>
        /\ IsNum(call.res[1])
        /\ 0 < call.res[1].v /\ call.res[1].v < call.args[2].v
        /\ call.args[3].v <= S => 2 * call.res[1].v > call.args[2].v
        /\ call.args[3].v <= S \div 5 => 10 * call.res[1].v > 9 * call.args[2].v

C10_Witness ==
    Midpoint /\ call.args[3] = p0[2] /\ call.args[2] = p0[1]
             /\ 100 * call.res[1].v > 95 * call.args[2].v

====
